---- MODULE Spec2Model ----
(***************************************************************************)
(* Version history engine of the notes backend: the undo/redo stacks of   *)
(* one note (services/noteHistory.service.js) driven through the HTTP     *)
(* handlers of routes/notes.routes.js.                                     *)
(*                                                                         *)
(* A JavaScript string is a sequence of one-character strings, so that     *)
(* trim() is computed; `undefined` and a present value are <<>> and <<v>>. *)
(* A Date is its getTime() value, a natural number of milliseconds.        *)
(***************************************************************************)
EXTENDS Integers, Sequences, FiniteSets, TLC

VARIABLES
    note,   \* the stored document (one id), or NoNote before POST /
    now,    \* the clock read by `new Date()`
    req,    \* the request handled last
    pre,    \* the stored document as it was when that request arrived
    resp,   \* the response to that request
    trail,  \* outcome kinds of the two requests before it, oldest first
    run,    \* the edits-then-undos run since creation, while it is one
    nEdits, \* effective edits handled so far
    inflight \* PATCH /:id requests being handled, each between two awaits

vars == <<note, now, req, pre, resp, trail, run, nEdits, inflight>>

(***************************************************************************)
(* Bounds of the model.                                                    *)
(***************************************************************************)
MaxEdits == 2       \* effective edits per behaviour of Spec
MaxClock == 1       \* the clock runs 0..MaxClock
Extra == 2          \* edits beyond MAX_HISTORY per behaviour of HistSpec

(***************************************************************************)
(* noteHistory.service.js                                                  *)
(***************************************************************************)
MAX_HISTORY == 20

Undefined == <<>>
Some(v) == <<v>>
IsDefined(o) == o # Undefined
Val(o) == o[1]

IsSpace(ch) == ch = " "

RECURSIVE TrimStart(_)
TrimStart(s) ==
    IF s = <<>> THEN s
    ELSE IF IsSpace(Head(s)) THEN TrimStart(Tail(s)) ELSE s

RECURSIVE TrimEnd(_)
TrimEnd(s) ==
    IF s = <<>> THEN s
    ELSE IF IsSpace(s[Len(s)]) THEN TrimEnd(SubSeq(s, 1, Len(s) - 1)) ELSE s

\* String.prototype.trim
Trim(s) == TrimEnd(TrimStart(s))

createSnapshot(n, t) ==
    [title |-> n.title, content |-> n.content, editedAt |-> t]

\* limitStack evicting one push too late
limitStack_Late(stack) ==
    IF Len(stack) > MAX_HISTORY + 1 THEN Tail(stack) ELSE stack

\* limitStack dropping the newest entry (pop) instead of the oldest (shift)
limitStack_DropNewest(stack) ==
    IF Len(stack) > MAX_HISTORY THEN SubSeq(stack, 1, Len(stack) - 1) ELSE stack

limitStack(stack) ==
    IF Len(stack) > MAX_HISTORY THEN Tail(stack) ELSE stack

hasChange(proposed, current) ==
    IsDefined(proposed) /\ Trim(Val(proposed)) # current

\* applyUpdate leaving the redo stack as it was
applyUpdate_KeepRedo(n, title, content, t) ==
    LET hasTitleChange == hasChange(title, n.title)
        hasContentChange == hasChange(content, n.content)
    IN  IF ~hasTitleChange /\ ~hasContentChange
        THEN [note |-> n, ret |-> FALSE]
        ELSE [note |->
                [n EXCEPT
                    !.versions = limitStack(Append(@, createSnapshot(n, t))),
                    !.title = IF hasTitleChange THEN Trim(Val(title)) ELSE @,
                    !.content = IF hasContentChange THEN Trim(Val(content)) ELSE @],
              ret |-> TRUE]

\* applyUpdate taking its snapshot after the fields were set
applyUpdate_SnapshotAfter(n, title, content, t) ==
    LET hasTitleChange == hasChange(title, n.title)
        hasContentChange == hasChange(content, n.content)
        edited == [n EXCEPT
                    !.title = IF hasTitleChange THEN Trim(Val(title)) ELSE @,
                    !.content = IF hasContentChange THEN Trim(Val(content)) ELSE @]
    IN  IF ~hasTitleChange /\ ~hasContentChange
        THEN [note |-> n, ret |-> FALSE]
        ELSE [note |->
                [edited EXCEPT
                    !.versions = limitStack(Append(@, createSnapshot(edited, t))),
                    !.redoStack = <<>>],
              ret |-> TRUE]

\* applyUpdate snapshotting on the first edit even when nothing changed
applyUpdate_FirstEdit(n, title, content, t) ==
    LET hasTitleChange == hasChange(title, n.title)
        hasContentChange == hasChange(content, n.content)
        isFirstEdit == Len(n.versions) = 0
    IN  IF ~hasTitleChange /\ ~hasContentChange /\ ~isFirstEdit
        THEN [note |-> n, ret |-> FALSE]
        ELSE [note |->
                [n EXCEPT
                    !.versions = limitStack(Append(@, createSnapshot(n, t))),
                    !.redoStack = <<>>,
                    !.title = IF hasTitleChange THEN Trim(Val(title)) ELSE @,
                    !.content = IF hasContentChange THEN Trim(Val(content)) ELSE @],
              ret |-> TRUE]

\* applyUpdate(note, {title, content}): the note afterwards and the value returned
applyUpdate(n, title, content, t) ==
    LET hasTitleChange == hasChange(title, n.title)
        hasContentChange == hasChange(content, n.content)
    IN  IF ~hasTitleChange /\ ~hasContentChange
        THEN [note |-> n, ret |-> FALSE]
        ELSE [note |->
                [n EXCEPT
                    !.versions = limitStack(Append(@, createSnapshot(n, t))),
                    !.redoStack = <<>>,
                    !.title = IF hasTitleChange THEN Trim(Val(title)) ELSE @,
                    !.content = IF hasContentChange THEN Trim(Val(content)) ELSE @],
              ret |-> TRUE]

\* the earlier applyUpdate without its first-edit rule
applyUpdateV1_NoFirstEdit(n, title, content, t) ==
    LET hasTitleChange == hasChange(title, n.title)
        hasContentChange == hasChange(content, n.content)
    IN  IF ~hasTitleChange /\ ~hasContentChange
        THEN n
        ELSE [n EXCEPT
                !.versions = limitStack(Append(@, createSnapshot(n, t))),
                !.redoStack = <<>>,
                !.title = IF hasTitleChange THEN Trim(Val(title)) ELSE @,
                !.content = IF hasContentChange THEN Trim(Val(content)) ELSE @]

\* unnamed/part_001, an earlier applyUpdate(note, updates): it returns nothing,
\* so the operator is the note afterwards
applyUpdateV1(n, title, content, t) ==
    LET hasTitleChange == hasChange(title, n.title)
        hasContentChange == hasChange(content, n.content)
        isFirstEdit == Len(n.versions) = 0
    IN  IF ~hasTitleChange /\ ~hasContentChange /\ ~isFirstEdit
        THEN n
        ELSE [n EXCEPT
                !.versions = limitStack(Append(@, createSnapshot(n, t))),
                !.redoStack = <<>>,
                !.title = IF hasTitleChange THEN Trim(Val(title)) ELSE @,
                !.content = IF hasContentChange THEN Trim(Val(content)) ELSE @]

NoError == ""
UndoError == "No hay cambios para deshacer"
RedoError == "No hay cambios para rehacer"

Top(stack) == stack[Len(stack)]
Pop(stack) == SubSeq(stack, 1, Len(stack) - 1)

\* undo restoring the oldest snapshot of the undo stack instead of its top
undo_PopBottom(n, t) ==
    IF Len(n.versions) = 0
    THEN [note |-> n, error |-> UndoError]
    ELSE [note |->
            [n EXCEPT
                !.redoStack = limitStack(Append(@, createSnapshot(n, t))),
                !.versions = Tail(@),
                !.title = n.versions[1].title,
                !.content = n.versions[1].content],
          error |-> NoError]

\* undo putting the snapshot it restores, not the current state, on the redo stack
undo_PushRestored(n, t) ==
    IF Len(n.versions) = 0
    THEN [note |-> n, error |-> UndoError]
    ELSE [note |->
            [n EXCEPT
                !.redoStack = limitStack(Append(@, Top(n.versions))),
                !.versions = Pop(@),
                !.title = Top(n.versions).title,
                !.content = Top(n.versions).content],
          error |-> NoError]

\* undo restoring the title only
undo_KeepContent(n, t) ==
    IF Len(n.versions) = 0
    THEN [note |-> n, error |-> UndoError]
    ELSE [note |->
            [n EXCEPT
                !.redoStack = limitStack(Append(@, createSnapshot(n, t))),
                !.versions = Pop(@),
                !.title = Top(n.versions).title],
          error |-> NoError]

\* undo forgetting to push the current state on the redo stack
undo_NoRedoPush(n, t) ==
    IF Len(n.versions) = 0
    THEN [note |-> n, error |-> UndoError]
    ELSE [note |->
            [n EXCEPT
                !.versions = Pop(@),
                !.title = Top(n.versions).title,
                !.content = Top(n.versions).content],
          error |-> NoError]

\* undo returning silently when there is nothing to undo
undo_Silent(n, t) ==
    IF Len(n.versions) = 0
    THEN [note |-> n, error |-> NoError]
    ELSE [note |->
            [n EXCEPT
                !.redoStack = limitStack(Append(@, createSnapshot(n, t))),
                !.versions = Pop(@),
                !.title = Top(n.versions).title,
                !.content = Top(n.versions).content],
          error |-> NoError]

\* undo(note): the note afterwards, or the message of the Error thrown
undo(n, t) ==
    IF Len(n.versions) = 0
    THEN [note |-> n, error |-> UndoError]
    ELSE LET previous == Top(n.versions)
         IN  [note |->
                [n EXCEPT
                    !.redoStack = limitStack(Append(@, createSnapshot(n, t))),
                    !.versions = Pop(@),
                    !.title = previous.title,
                    !.content = previous.content],
              error |-> NoError]

\* redo reading the top of the redo stack without removing it
redo_KeepEntry(n, t) ==
    IF Len(n.redoStack) = 0
    THEN [note |-> n, error |-> RedoError]
    ELSE [note |->
            [n EXCEPT
                !.versions = limitStack(Append(@, createSnapshot(n, t))),
                !.title = Top(n.redoStack).title,
                !.content = Top(n.redoStack).content],
          error |-> NoError]

\* redo taking the oldest entry of the redo stack instead of its top
redo_Bottom(n, t) ==
    IF Len(n.redoStack) = 0
    THEN [note |-> n, error |-> RedoError]
    ELSE [note |->
            [n EXCEPT
                !.versions = limitStack(Append(n.versions, createSnapshot(n, t))),
                !.redoStack = Tail(n.redoStack),
                !.title = n.redoStack[1].title,
                !.content = n.redoStack[1].content],
          error |-> NoError]

\* redo(note): the note afterwards, or the message of the Error thrown
redo(n, t) ==
    IF Len(n.redoStack) = 0
    THEN [note |-> n, error |-> RedoError]
    ELSE LET next == Top(n.redoStack)
         IN  [note |->
                [n EXCEPT
                    !.versions = limitStack(Append(@, createSnapshot(n, t))),
                    !.redoStack = Pop(@),
                    !.title = next.title,
                    !.content = next.content],
              error |-> NoError]

(***************************************************************************)
(* models/Note.js (the Mongoose schema): the stored document.             *)
(***************************************************************************)
NoDate == <<>>

NoNote ==
    [exists |-> FALSE, title |-> <<>>, content |-> <<>>,
     versions |-> <<>>, redoStack |-> <<>>,
     updatedAt |-> 0, isDeleted |-> FALSE, deletedAt |-> NoDate]

\* Note.create({title, content}): empty stacks, not deleted, timestamps set
NoteCreate(title, content, t) ==
    [exists |-> TRUE, title |-> title, content |-> content,
     versions |-> <<>>, redoStack |-> <<>>,
     updatedAt |-> t, isDeleted |-> FALSE, deletedAt |-> NoDate]

\* note.save(): a modified document is written with updatedAt set to the clock
save(doc, loaded, t) ==
    IF doc = loaded THEN doc ELSE [doc EXCEPT !.updatedAt = t]

(***************************************************************************)
(* routes/notes.routes.js                                                  *)
(***************************************************************************)
\* lastKnownUpdate of a request body: absent, "" (falsy), a date, or a string
\* that is no date (new Date(s).getTime() is NaN)
LkuUndefined == [kind |-> "undefined", t |-> 0]
LkuEmpty == [kind |-> "empty", t |-> 0]
LkuInvalid == [kind |-> "invalid", t |-> 0]
LkuDate(t) == [kind |-> "date", t |-> t]

Truthy(lku) == lku.kind \in {"date", "invalid"}

\* new Date(lastKnownUpdate).getTime() !== note.updatedAt.getTime()
TimeDiffers(lku, updatedAt) == lku.kind = "invalid" \/ lku.t # updatedAt

NoHistory == <<>>

Response(status, message) ==
    [status |-> status, message |-> message, applied |-> Undefined,
     history |-> NoHistory]

Outcome(n, r) == [note |-> n, resp |-> r]

\* loadNote letting a note in the trash through
loadNote_Trashed(n) == n.exists

\* loadNote: the document is found and is not in the trash
loadNote(n) == n.exists /\ ~n.isDeleted

NotFound == Response(404, "Nota no encontrada")

\* GET /: Note.find({ isDeleted: false })
getNotes(n) == IF n.exists /\ n.isDeleted = FALSE THEN <<n>> ELSE <<>>

\* GET /trash: Note.find({ isDeleted: true })
getTrash(n) == IF n.exists /\ n.isDeleted = TRUE THEN <<n>> ELSE <<>>

\* the history query reporting canUndo only from the second snapshot on
getHistory_OffByOne(n) ==
    IF ~loadNote(n) THEN Outcome(n, NotFound)
    ELSE Outcome(n,
            [Response(200, NoError) EXCEPT
                !.history = Some([canUndo |-> Len(n.versions) > 1,
                                  canRedo |-> Len(n.redoStack) > 0,
                                  undoCount |-> Len(n.versions),
                                  redoCount |-> Len(n.redoStack)])])

\* GET /:id/history
getHistory(n) ==
    IF ~loadNote(n) THEN Outcome(n, NotFound)
    ELSE Outcome(n,
            [Response(200, NoError) EXCEPT
                !.history = Some([canUndo |-> Len(n.versions) > 0,
                                  canRedo |-> Len(n.redoStack) > 0,
                                  undoCount |-> Len(n.versions),
                                  redoCount |-> Len(n.redoStack)])])

\* !s?.trim()
Blank(o) == ~IsDefined(o) \/ Trim(Val(o)) = <<>>

\* POST /
postNote(n, title, content, t) ==
    IF Blank(title) \/ Blank(content)
    THEN Outcome(n, Response(400, "Título y contenido son obligatorios"))
    ELSE Outcome(NoteCreate(Trim(Val(title)), Trim(Val(content)), t),
                 Response(201, NoError))

\* the comparison made at a coarser precision than the stored timestamp
StaleWrite_Truncated(lku, n) ==
    Truthy(lku) /\ (lku.kind = "invalid" \/ lku.t \div 2 # n.updatedAt \div 2)

\* the comparison made on the Date objects, which are never identical
StaleWrite_ByReference(lku, n) == Truthy(lku)

\* the optimistic guard of PATCH /:id
StaleWrite(lku, n) == Truthy(lku) /\ TimeDiffers(lku, n.updatedAt)

\* PATCH /:id without the check of a blank title
patchNote_NoTitleCheck(n, title, content, lku, t) ==
    IF ~loadNote(n) THEN Outcome(n, NotFound)
    ELSE IF ~IsDefined(title) /\ ~IsDefined(content)
    THEN Outcome(n, Response(400, "No se enviaron campos para actualizar"))
    ELSE IF StaleWrite(lku, n)
    THEN Outcome(n, Response(409,
            "La nota fue modificada previamente, recarga antes de editar"))
    ELSE IF IsDefined(content) /\ Trim(Val(content)) = <<>>
    THEN Outcome(n, Response(400, "El contenido no puede estar vacío"))
    ELSE LET r == applyUpdate(n, title, content, t)
         IN  Outcome(save(r.note, n, t),
                     [Response(200, NoError) EXCEPT !.applied = Some(r.ret)])

\* PATCH /:id
patchNote(n, title, content, lku, t) ==
    IF ~loadNote(n) THEN Outcome(n, NotFound)
    ELSE IF ~IsDefined(title) /\ ~IsDefined(content)
    THEN Outcome(n, Response(400, "No se enviaron campos para actualizar"))
    ELSE IF StaleWrite(lku, n)
    THEN Outcome(n, Response(409,
            "La nota fue modificada previamente, recarga antes de editar"))
    ELSE IF IsDefined(title) /\ Trim(Val(title)) = <<>>
    THEN Outcome(n, Response(400, "El título no puede estar vacío"))
    ELSE IF IsDefined(content) /\ Trim(Val(content)) = <<>>
    THEN Outcome(n, Response(400, "El contenido no puede estar vacío"))
    ELSE LET r == applyUpdate(n, title, content, t)
         IN  Outcome(save(r.note, n, t),
                     [Response(200, NoError) EXCEPT !.applied = Some(r.ret)])

\* PATCH /:id over the earlier applyUpdate; applied records whether the call
\* modified the document
patchNoteV1(n, title, content, lku, t) ==
    IF ~loadNote(n) THEN Outcome(n, NotFound)
    ELSE IF ~IsDefined(title) /\ ~IsDefined(content)
    THEN Outcome(n, Response(400, "No se enviaron campos para actualizar"))
    ELSE IF StaleWrite(lku, n)
    THEN Outcome(n, Response(409,
            "La nota fue modificada previamente, recarga antes de editar"))
    ELSE IF IsDefined(title) /\ Trim(Val(title)) = <<>>
    THEN Outcome(n, Response(400, "El título no puede estar vacío"))
    ELSE IF IsDefined(content) /\ Trim(Val(content)) = <<>>
    THEN Outcome(n, Response(400, "El contenido no puede estar vacío"))
    ELSE LET doc == applyUpdateV1(n, title, content, t)
         IN  Outcome(save(doc, n, t),
                     [Response(200, NoError) EXCEPT !.applied = Some(doc # n)])

\* PATCH /:id/undo
patchUndo(n, t) ==
    IF ~loadNote(n) THEN Outcome(n, NotFound)
    ELSE LET r == undo(n, t)
         IN  IF r.error # NoError THEN Outcome(n, Response(400, r.error))
             ELSE Outcome(save(r.note, n, t), Response(200, NoError))

\* PATCH /:id/redo
patchRedo(n, t) ==
    IF ~loadNote(n) THEN Outcome(n, NotFound)
    ELSE LET r == redo(n, t)
         IN  IF r.error # NoError THEN Outcome(n, Response(400, r.error))
             ELSE Outcome(save(r.note, n, t), Response(200, NoError))

\* trash stamping deletedAt without setting the flag
patchTrash_NoFlag(n, t) ==
    IF ~loadNote(n) THEN Outcome(n, NotFound)
    ELSE Outcome(save([n EXCEPT !.deletedAt = Some(t)], n, t),
                 Response(200, "Nota enviada a la papelera"))

\* PATCH /:id/trash
patchTrash(n, t) ==
    IF ~loadNote(n) THEN Outcome(n, NotFound)
    ELSE Outcome(save([n EXCEPT !.isDeleted = TRUE, !.deletedAt = Some(t)], n, t),
                 Response(200, "Nota enviada a la papelera"))

\* restore handing back a note with its history reset
patchRestore_Reset(n, t) ==
    IF ~n.exists \/ ~n.isDeleted
    THEN Outcome(n, Response(404, "Nota no encontrada en la papelera"))
    ELSE Outcome(save([n EXCEPT !.isDeleted = FALSE, !.deletedAt = NoDate,
                                !.versions = <<>>, !.redoStack = <<>>], n, t),
                 Response(200, NoError))

\* PATCH /:id/restore
patchRestore(n, t) ==
    IF ~n.exists \/ ~n.isDeleted
    THEN Outcome(n, Response(404, "Nota no encontrada en la papelera"))
    ELSE Outcome(save([n EXCEPT !.isDeleted = FALSE, !.deletedAt = NoDate], n, t),
                 Response(200, NoError))

(***************************************************************************)
(* Requests and the record of what was handled.                            *)
(***************************************************************************)
Request(op, title, content, lku) ==
    [op |-> op, title |-> title, content |-> content, lastKnownUpdate |-> lku]

Bare(op) == Request(op, Undefined, Undefined, LkuUndefined)

\* title and content of a document or of a snapshot
TC(x) == [title |-> x.title, content |-> x.content]

Stack(st) == [i \in 1..Len(st) |-> TC(st[i])]

\* what a handled request did
Kind(r, rs) ==
    IF r.op = "create" /\ rs.status = 201 THEN "create"
    ELSE IF r.op = "edit" /\ rs.applied = Some(TRUE) THEN "edit"
    ELSE IF r.op = "edit" /\ rs.applied = Some(FALSE) THEN "noop"
    ELSE IF r.op = "undo" /\ rs.status = 200 THEN "undo"
    ELSE IF r.op = "redo" /\ rs.status = 200 THEN "redo"
    ELSE "other"

LastTwo(s) == IF Len(s) > 2 THEN Tail(s) ELSE s

NoRun == [phase |-> "none", past |-> <<>>, tip |-> TC(NoNote), undos |-> 0]
Broken == [NoRun EXCEPT !.phase = "other"]

\* the run after a request of kind k took the document from n to n2
RunAfter(k, n, n2) ==
    IF k = "create"
    THEN [phase |-> "edits", past |-> <<>>, tip |-> TC(n2), undos |-> 0]
    ELSE IF k = "edit"
    THEN IF run.phase = "edits"
         THEN [run EXCEPT !.past = Append(@, TC(n)), !.tip = TC(n2)]
         ELSE Broken
    ELSE IF k = "undo"
    THEN IF run.phase \in {"edits", "undos"}
         THEN [run EXCEPT !.phase = "undos", !.undos = @ + 1]
         ELSE Broken
    ELSE IF k = "redo" THEN Broken
    ELSE run

\* one request handled to completion: the document is stored, the response sent
Handle(r, out, cap) ==
    LET k == Kind(r, out.resp)
    IN  /\ k = "edit" => nEdits < cap
        /\ note' = out.note
        /\ req' = r
        /\ pre' = note
        /\ resp' = out.resp
        /\ trail' = LastTwo(Append(trail, Kind(req, resp)))
        /\ run' = RunAfter(k, note, out.note)
        /\ nEdits' = IF k = "create" THEN 0
                     ELSE IF k = "edit" THEN nEdits + 1 ELSE nEdits
        /\ UNCHANGED <<now, inflight>>

(***************************************************************************)
(* PATCH /:id handled step by step.  The handler suspends at each await:   *)
(* Note.findById in loadNote, then note.save(); what lies between two      *)
(* awaits runs without interruption.                                       *)
(***************************************************************************)
Handlers == {"A", "B"}

\* a handler that has not received its request
Idle ==
    [pc |-> "idle", title |-> Undefined, lastKnownUpdate |-> LkuUndefined,
     doc |-> NoNote, dirty |-> FALSE, resp |-> Response(0, NoError)]

\* await Note.findById(req.params.id): the handler gets its own copy
LoadStep(h, title, lku) ==
    /\ inflight[h].pc = "idle"
    /\ inflight' = [inflight EXCEPT ![h] =
            [Idle EXCEPT !.pc = "loaded", !.title = title,
                         !.lastKnownUpdate = lku, !.doc = note]]
    /\ UNCHANGED <<note, now, req, pre, resp, trail, run, nEdits>>

\* from the result of findById to the call of note.save(): the 404 of loadNote,
\* the checks of the handler and applyUpdate, all on the handler's copy
CheckStep(h) ==
    LET p == inflight[h]
        out == patchNote(p.doc, p.title, Undefined, p.lastKnownUpdate, now)
    IN  /\ p.pc = "loaded"
        /\ inflight' = [inflight EXCEPT ![h] =
                [p EXCEPT !.pc = IF out.resp.status = 200 THEN "saving" ELSE "done",
                          !.doc = out.note,
                          !.dirty = out.note # p.doc,
                          !.resp = out.resp]]
        /\ UNCHANGED <<note, now, req, pre, resp, trail, run, nEdits>>

\* await note.save() completes: a modified copy replaces the stored document
SaveStep(h) ==
    LET p == inflight[h]
    IN  /\ p.pc = "saving"
        /\ note' = IF p.dirty THEN p.doc ELSE note
        /\ inflight' = [inflight EXCEPT ![h].pc = "done"]
        /\ UNCHANGED <<now, req, pre, resp, trail, run, nEdits>>

(***************************************************************************)
(* Inputs.                                                                 *)
(***************************************************************************)
Optional(S) == {Undefined} \cup {Some(v) : v \in S}

TitleInputs == Optional({<<"a">>, <<" ", "b", " ">>})
ContentInputs == Optional({<<"c">>, <<"d", " ">>})

HistTitles == {Some(<<"a">>), Some(<<"b">>)}

LifeContents == Optional({<<"d", " ">>})

StampedTitles == Optional({<<" ">>, <<"a">>, <<" ", "b", " ">>})
LkuInputs == {LkuUndefined, LkuEmpty, LkuInvalid} \cup {LkuDate(t) : t \in 0..MaxClock}

ValidTitles == Optional({<<>>, <<" ">>, <<"a">>, <<" ", "b", " ">>})
ValidContents == Optional({<<" ", " ">>, <<"c">>})
ValidLkus == {LkuUndefined, LkuInvalid}

(***************************************************************************)
(* Actions: one per route.                                                 *)
(***************************************************************************)
Create(title, content) ==
    /\ ~note.exists
    /\ Handle(Request("create", title, content, LkuUndefined),
              postNote(note, title, content, now), 0)

Edit(title, content, lku, cap) ==
    Handle(Request("edit", title, content, lku),
           patchNote(note, title, content, lku, now), cap)

EditV1(title, content, lku, cap) ==
    Handle(Request("edit", title, content, lku),
           patchNoteV1(note, title, content, lku, now), cap)

UndoReq == Handle(Bare("undo"), patchUndo(note, now), 0)

RedoReq == Handle(Bare("redo"), patchRedo(note, now), 0)

HistoryReq == Handle(Bare("history"), getHistory(note), 0)

Trash == Handle(Bare("trash"), patchTrash(note, now), 0)

Restore == Handle(Bare("restore"), patchRestore(note, now), 0)

Tick ==
    /\ now < MaxClock
    /\ now' = now + 1
    /\ UNCHANGED <<note, req, pre, resp, trail, run, nEdits, inflight>>

Init ==
    /\ note = NoNote
    /\ now = 0
    /\ req = Bare("none")
    /\ pre = NoNote
    /\ resp = Response(0, NoError)
    /\ trail = <<>>
    /\ run = NoRun
    /\ nEdits = 0
    /\ inflight = [h \in Handlers |-> Idle]

\* The history engine behind its routes: any edits, undos and redos of one note
Next ==
    \/ \E t \in TitleInputs, c \in ContentInputs : Create(t, c)
    \/ \E t \in TitleInputs, c \in ContentInputs :
            Edit(t, c, LkuUndefined, MaxEdits)
    \/ UndoReq
    \/ RedoReq

Spec == Init /\ [][Next]_vars

\* Long histories: title edits, undo and redo on one note, within one clock tick
HistNext ==
    \/ Create(Some(<<"a">>), Some(<<"c">>))
    \/ \E t \in HistTitles : Edit(t, Undefined, LkuUndefined, MAX_HISTORY + Extra)
    \/ UndoReq
    \/ RedoReq

HistSpec == Init /\ [][HistNext]_vars

\* Optimistic concurrency: edits that carry lastKnownUpdate, while the clock runs
StampedNext ==
    \/ Create(Some(<<"a">>), Some(<<"c">>))
    \/ \E t \in StampedTitles, l \in LkuInputs : Edit(t, Undefined, l, MaxEdits)
    \/ UndoReq
    \/ Tick

StampedSpec == Init /\ [][StampedNext]_vars

\* Trash and history: the whole life of one note, within one clock tick
LifeNext ==
    \/ Create(Some(<<"a">>), Some(<<"c">>))
    \/ \E t \in TitleInputs, c \in LifeContents :
            Edit(t, c, LkuUndefined, MaxEdits)
    \/ UndoReq
    \/ RedoReq
    \/ HistoryReq
    \/ Trash
    \/ Restore

LifeSpec == Init /\ [][LifeNext]_vars

\* Validation: requests with missing, empty and blank fields, fresh and stale
ValidNext ==
    \/ \E t \in ValidTitles, c \in ValidContents : Create(t, c)
    \/ \E t \in ValidTitles, c \in ValidContents, l \in ValidLkus :
            Edit(t, c, l, MaxEdits)
    \/ UndoReq
    \/ RedoReq

ValidSpec == Init /\ [][ValidNext]_vars

\* The history engine of unnamed/part_001 behind the same routes
VariantNext ==
    \/ Create(Some(<<"a">>), Some(<<"c">>))
    \/ \E t \in TitleInputs, c \in ContentInputs :
            EditV1(t, c, LkuUndefined, MaxEdits)
    \/ UndoReq
    \/ RedoReq

VariantSpec == Init /\ [][VariantNext]_vars

RaceTitles == {Some(<<"b">>), Some(<<"e">>)}
RaceLkus == {LkuUndefined} \cup {LkuDate(t) : t \in 0..MaxClock}

\* Two edit requests for one note handled at once, while the clock runs
RaceNext ==
    \/ Create(Some(<<"a">>), Some(<<"c">>))
    \/ \E h \in Handlers, t \in RaceTitles, l \in RaceLkus : LoadStep(h, t, l)
    \/ \E h \in Handlers : CheckStep(h)
    \/ \E h \in Handlers : SaveStep(h)
    \/ Tick

RaceSpec == Init /\ [][RaceNext]_vars

(***************************************************************************)
(* Properties.                                                             *)
(***************************************************************************)
\* what the request handled last did, and the one before it
LastKind == Kind(req, resp)
PrevKind == IF trail = <<>> THEN "none" ELSE trail[Len(trail)]

LastN(s, n) == IF Len(s) > n THEN SubSeq(s, Len(s) - n + 1, Len(s)) ELSE s

\* the i-th state of a run of edits: v1 is the created note, v(k+1) the latest
V(i) == IF i <= Len(run.past) THEN run.past[i] ELSE run.tip

\* C1: whatever edits, undos and redos were handled since the note was created,
\* the undo stack and the redo stack each hold at most MAX_HISTORY snapshots.
C1_StacksBounded ==
    /\ Len(note.versions) <= MAX_HISTORY
    /\ Len(note.redoStack) <= MAX_HISTORY

\* an effective edit arrived at a full undo stack and was applied
C1_Witness ==
    /\ LastKind = "edit"
    /\ Len(pre.versions) = MAX_HISTORY
    /\ Len(note.versions) = MAX_HISTORY

\* C2: while only effective edits were applied to a created note, the undo stack
\* is the sequence of the MAX_HISTORY most recent pre-edit states, oldest first;
\* after MAX_HISTORY + 1 edits it is pre-edit states 2..MAX_HISTORY + 1.
C2_KeepsMostRecent ==
    run.phase = "edits" =>
        /\ Stack(note.versions) = LastN(run.past, MAX_HISTORY)
        /\ Len(run.past) = MAX_HISTORY + 1 =>
                Stack(note.versions) = SubSeq(run.past, 2, MAX_HISTORY + 1)

\* the 21st effective edit in a row has been applied, evicting the created state
C2_Witness ==
    /\ run.phase = "edits"
    /\ LastKind = "edit"
    /\ Len(run.past) = MAX_HISTORY + 1
    /\ Stack(note.versions)[1] # run.past[1]

\* C6: after k <= MAX_HISTORY effective edits of a created note followed by j
\* undos, the undo stack holds k - j snapshots, the redo stack j, and the note
\* has the title and content of v(k+1-j).
C6_EditsThenUndos ==
    LET k == Len(run.past)
        j == run.undos
    IN  (run.phase \in {"edits", "undos"} /\ k <= MAX_HISTORY) =>
            /\ j <= k
            /\ Len(note.versions) = k - j
            /\ Len(note.redoStack) = j
            /\ TC(note) = V(k + 1 - j)

\* three edits then two undos: one undo left, two redos, the note back at v2
C6_Witness ==
    /\ run.phase = "undos"
    /\ Len(run.past) = 3
    /\ run.undos = 2
    /\ resp.status = 200
    /\ Len(note.versions) = 1
    /\ Len(note.redoStack) = 2
    /\ TC(note) = run.past[2]

\* C3: an edit that changes title or content leaves the redo stack empty,
\* whatever it held, and a redo requested right after such an edit is answered
\* 400 with the message about 'rehacer'.
C3_EditClearsRedo ==
    /\ LastKind = "edit" => note.redoStack = <<>>
    /\ (req.op = "redo" /\ PrevKind = "edit") =>
            /\ resp.status = 400
            /\ resp.message = RedoError
            /\ note = pre

\* edit, undo, a new edit over a non-empty redo stack, then a redo that fails
C3_Witness ==
    /\ req.op = "redo"
    /\ trail = <<"undo", "edit">>
    /\ resp.status = 400
    /\ resp.message = RedoError

\* C4: after an effective edit from S0 to S1, an undo puts the title and content
\* of S0 back, and a redo after that undo puts those of S1 back.
C4_EditUndoRedo ==
    [][ /\ (LastKind = "edit" /\ UndoReq) =>
                (resp'.status = 200 /\ TC(note') = TC(pre))
        /\ (LastKind = "undo" /\ PrevKind = "edit" /\ RedoReq) =>
                (resp'.status = 200 /\ TC(note') = TC(pre)) ]_vars

\* an edit that changed the content, its undo and its redo have all succeeded
C4_Witness ==
    /\ req.op = "redo"
    /\ resp.status = 200
    /\ trail = <<"edit", "undo">>
    /\ TC(note).content # TC(pre).content

\* C5: wherever an undo succeeds, a redo right after it succeeds and returns the
\* note's title and content to what they were before the undo.
C5_UndoRedoRoundTrip ==
    [][ (LastKind = "undo" /\ RedoReq) =>
            (resp'.status = 200 /\ TC(note') = TC(pre)) ]_vars

\* two undos in a row and then a redo, taken from a redo stack of two entries
C5_Witness ==
    /\ req.op = "redo"
    /\ resp.status = 200
    /\ trail = <<"undo", "undo">>
    /\ Len(pre.redoStack) = 2

\* the request supplies nothing that differs, after trimming, from the note
Unchanging(n, title, content) ==
    /\ IsDefined(title) => Trim(Val(title)) = n.title
    /\ IsDefined(content) => Trim(Val(content)) = n.content

\* C7: in every reachable state of a note, applyUpdate with a title and a
\* content that are each absent or equal after trimming to the current value
\* returns false and changes nothing; the handled request leaves title, content
\* and both stacks as they were.
C7_NoOpEdit ==
    /\ note.exists =>
            \A t \in TitleInputs, c \in ContentInputs :
                Unchanging(note, t, c) =>
                    applyUpdate(note, t, c, now) = [note |-> note, ret |-> FALSE]
    /\ (req.op = "edit" /\ pre.exists
            /\ Unchanging(pre, req.title, req.content)
            /\ IsDefined(resp.applied)) =>
                /\ resp.applied = Some(FALSE)
                /\ note = pre

\* a padded title equal to the current one was sent to a note never edited
C7_Witness ==
    /\ LastKind = "noop"
    /\ pre.versions = <<>>
    /\ IsDefined(req.title)
    /\ Val(req.title) # pre.title
    /\ note = pre

\* C10: undo on a note with an empty undo stack, and redo on a note with an empty
\* redo stack, are answered 400 with the empty-history message and leave the
\* note as it was.
C10_EmptyHistory ==
    /\ (req.op = "undo" /\ loadNote(pre) /\ pre.versions = <<>>) =>
            (resp.status = 400 /\ resp.message = UndoError /\ note = pre)
    /\ (req.op = "redo" /\ loadNote(pre) /\ pre.redoStack = <<>>) =>
            (resp.status = 400 /\ resp.message = RedoError /\ note = pre)

\* undo was requested on a note just created
C10_Witness ==
    /\ req.op = "undo"
    /\ PrevKind = "create"
    /\ pre.versions = <<>>
    /\ resp.status = 400

\* the request handled last was a PATCH /:id of a stored, non-deleted note that
\* carried a lastKnownUpdate naming another time than the note's updatedAt
CarriedStale ==
    /\ req.op = "edit"
    /\ loadNote(pre)
    /\ Truthy(req.lastKnownUpdate)
    /\ TimeDiffers(req.lastKnownUpdate, pre.updatedAt)

\* the request was rejected as a stale write, before applyUpdate, changing nothing
RejectedStale ==
    /\ resp.status = 409
    /\ resp.applied = Undefined
    /\ note = pre

\* C8 as stated: every edit request carrying a lastKnownUpdate different from
\* the note's updatedAt is rejected 409 before applyUpdate and changes nothing.
C8_Original == CarriedStale => RejectedStale

\* C8, amended: an edit request that supplies a title or a content and carries a
\* lastKnownUpdate different from the note's updatedAt is rejected 409 before
\* applyUpdate runs, and title, content, both stacks and updatedAt are unchanged;
\* a request that supplies neither field is answered 400 whatever it carries.
C8_StaleRejected ==
    /\ (CarriedStale /\ (IsDefined(req.title) \/ IsDefined(req.content))) =>
            RejectedStale
    /\ (CarriedStale /\ ~IsDefined(req.title) /\ ~IsDefined(req.content)) =>
            (resp.status = 400 /\ resp.applied = Undefined /\ note = pre)

\* a timestamp read before an edit was sent back after it, and was rejected
C8_Witness ==
    /\ CarriedStale
    /\ IsDefined(req.title)
    /\ req.lastKnownUpdate.kind = "date"
    /\ req.lastKnownUpdate.t < pre.updatedAt
    /\ pre.versions # <<>>
    /\ resp.status = 409

\* title and content are each absent or non-blank, and one of them is present
ValidEdit(r) ==
    /\ IsDefined(r.title) \/ IsDefined(r.content)
    /\ IsDefined(r.title) => Trim(Val(r.title)) # <<>>
    /\ IsDefined(r.content) => Trim(Val(r.content)) # <<>>

Fresh(lku, n) == lku.kind = "undefined" \/ (lku.kind = "date" /\ lku.t = n.updatedAt)

\* C9: a valid edit request on a stored, non-deleted note whose lastKnownUpdate
\* is absent or equal to the note's updatedAt is not rejected: applyUpdate runs
\* and the answer is 200, whatever happened to the note before.
C9_FreshAccepted ==
    (req.op = "edit" /\ loadNote(pre) /\ ValidEdit(req)
        /\ Fresh(req.lastKnownUpdate, pre)) =>
            /\ resp.status = 200
            /\ IsDefined(resp.applied)
            /\ TC(note) = TC(applyUpdate(pre, req.title, req.content, 0).note)

\* after an earlier edit at a later time, an edit carrying the new updatedAt is applied
C9_Witness ==
    /\ req.op = "edit"
    /\ req.lastKnownUpdate.kind = "date"
    /\ req.lastKnownUpdate.t = pre.updatedAt
    /\ pre.updatedAt > 0
    /\ pre.versions # <<>>
    /\ resp.status = 200
    /\ resp.applied = Some(TRUE)

Versioned(n) ==
    [title |-> n.title, content |-> n.content,
     versions |-> n.versions, redoStack |-> n.redoStack]

\* C12: trash and restore leave title, content, the undo stack and the redo
\* stack as they were, so after a trash and a restore the history is what it
\* was before the trash, and undo and redo answer as they would have.
C12_TrashKeepsHistory ==
    /\ req.op \in {"trash", "restore"} => Versioned(note) = Versioned(pre)
    /\ (req.op = "restore" /\ resp.status = 200) =>
            LET was == [pre EXCEPT !.isDeleted = FALSE]
            IN  /\ Versioned(patchUndo(note, now).note)
                        = Versioned(undo(was, now).note)
                /\ patchUndo(note, now).resp.message = undo(was, now).error
                /\ Versioned(patchRedo(note, now).note)
                        = Versioned(redo(was, now).note)
                /\ patchRedo(note, now).resp.message = redo(was, now).error

\* a note with something to undo and something to redo came back from the trash
C12_Witness ==
    /\ req.op = "restore"
    /\ resp.status = 200
    /\ pre.isDeleted
    /\ note.versions # <<>>
    /\ note.redoStack # <<>>

\* C13: while a note is in the trash, every edit, undo, redo and history
\* request for it is answered 404 and leaves the stored note as it was.
C13_TrashedNotFound ==
    (req.op \in {"edit", "undo", "redo", "history"} /\ pre.exists /\ pre.isDeleted) =>
        /\ resp.status = 404
        /\ resp.applied = Undefined
        /\ resp.history = NoHistory
        /\ note = pre

\* an undo was requested for a trashed note that had something to undo
C13_Witness ==
    /\ req.op = "undo"
    /\ pre.isDeleted
    /\ pre.versions # <<>>
    /\ resp.status = 404

\* C14: a stored note is in exactly one listing, the normal one iff it is not
\* deleted and the trash one iff it is; trash moves it to the trash listing and
\* succeeds only on a non-deleted note, restore moves it back and succeeds only
\* on a deleted one; otherwise they answer 404 and change nothing.
C14_OneListing ==
    /\ note.exists =>
            /\ getNotes(note) = <<note>> <=> ~note.isDeleted
            /\ getTrash(note) = <<note>> <=> note.isDeleted
            /\ Len(getNotes(note)) + Len(getTrash(note)) = 1
    /\ req.op = "trash" =>
            IF loadNote(pre)
            THEN resp.status = 200 /\ getNotes(note) = <<>> /\ getTrash(note) = <<note>>
            ELSE resp.status = 404 /\ note = pre
    /\ req.op = "restore" =>
            IF pre.exists /\ pre.isDeleted
            THEN resp.status = 200 /\ getNotes(note) = <<note>> /\ getTrash(note) = <<>>
            ELSE resp.status = 404 /\ note = pre

\* a note listed in the trash was restored and is listed normally again
C14_Witness ==
    /\ req.op = "restore"
    /\ resp.status = 200
    /\ getTrash(pre) = <<pre>>
    /\ getNotes(pre) = <<>>
    /\ getNotes(note) = <<note>>

\* C15: the history query reports canUndo and canRedo as the stacks being
\* non-empty and undoCount and redoCount as their lengths; in every state of a
\* loaded note an undo succeeds iff canUndo and a redo succeeds iff canRedo.
C15_HistoryQuery ==
    /\ (req.op = "history" /\ loadNote(pre)) =>
            /\ resp.status = 200
            /\ resp.history = Some([canUndo |-> pre.versions # <<>>,
                                    canRedo |-> pre.redoStack # <<>>,
                                    undoCount |-> Len(pre.versions),
                                    redoCount |-> Len(pre.redoStack)])
            /\ note = pre
    /\ loadNote(note) =>
            LET h == Val(getHistory(note).resp.history)
            IN  /\ patchUndo(note, now).resp.status = 200 <=> h.canUndo
                /\ patchRedo(note, now).resp.status = 200 <=> h.canRedo

\* the history of a note with one step to undo and one to redo was queried
C15_Witness ==
    /\ req.op = "history"
    /\ resp.status = 200
    /\ Val(resp.history).canUndo
    /\ Val(resp.history).canRedo
    /\ Val(resp.history).undoCount = 1
    /\ Val(resp.history).redoCount = 1

\* the field was sent and is empty or whitespace-only once trimmed
BlankField(o) == IsDefined(o) /\ Trim(Val(o)) = <<>>

NonEmptyTrimmed(s) == s # <<>> /\ Trim(s) = s

\* the request named a blank title or a blank content
BlankRequest == BlankField(req.title) \/ BlankField(req.content)

\* C16 as stated: a create request, or an edit request for a note that is
\* loaded, whose title or content is blank is answered 400 and changes nothing.
C16_Original ==
    (BlankRequest /\ (req.op = "create" \/ (req.op = "edit" /\ loadNote(pre)))) =>
        /\ resp.status = 400
        /\ resp.applied = Undefined
        /\ note = pre

\* C16: a create request with a blank title or content is answered 400; an edit
\* request for a loaded note with a blank title or content is answered 409 when
\* its lastKnownUpdate is stale and 400 otherwise; in each case applyUpdate is
\* not reached and the note is unchanged.  Hence the title and content of the
\* note and of every snapshot in both stacks are non-empty trimmed strings.
C16_BlankRejected ==
    /\ (BlankRequest /\ req.op = "create") =>
            /\ resp.status = 400
            /\ note = pre
    /\ (BlankRequest /\ req.op = "edit" /\ loadNote(pre)) =>
            /\ resp.status = IF StaleWrite(req.lastKnownUpdate, pre) THEN 409 ELSE 400
            /\ resp.applied = Undefined
            /\ note = pre
    /\ note.exists =>
            /\ NonEmptyTrimmed(note.title)
            /\ NonEmptyTrimmed(note.content)
            /\ \A i \in 1..Len(note.versions) :
                    /\ NonEmptyTrimmed(note.versions[i].title)
                    /\ NonEmptyTrimmed(note.versions[i].content)
            /\ \A i \in 1..Len(note.redoStack) :
                    /\ NonEmptyTrimmed(note.redoStack[i].title)
                    /\ NonEmptyTrimmed(note.redoStack[i].content)

\* a blank title with a valid content was refused on a note that has history
C16_Witness ==
    /\ req.op = "edit"
    /\ loadNote(pre)
    /\ BlankField(req.title)
    /\ req.content = Some(<<"c">>)
    /\ req.lastKnownUpdate = LkuUndefined
    /\ resp.status = 400
    /\ pre.versions # <<>>
    /\ pre.redoStack # <<>>
    /\ note = pre

\* the field was sent and differs, once trimmed, from the note's value
Differs(o, current) == IsDefined(o) /\ Trim(Val(o)) # current

\* an edit request that reached applyUpdate with a field to change
EffectiveEdit ==
    /\ req.op = "edit"
    /\ resp.status = 200
    /\ Differs(req.title, pre.title) \/ Differs(req.content, pre.content)

\* C17: an edit that changes a field puts on top of the undo stack a snapshot
\* with the title and content the note had before the edit, above the snapshots
\* that were there; each field that differs becomes the trimmed value sent, each
\* field absent or equal keeps its value; applyUpdate returns true.
C17_EditSnapshots ==
    EffectiveEdit =>
        /\ note.versions # <<>>
        /\ TC(Top(note.versions)) = TC(pre)
        /\ Len(pre.versions) < MAX_HISTORY => Pop(note.versions) = pre.versions
        /\ note.title = IF Differs(req.title, pre.title)
                        THEN Trim(Val(req.title)) ELSE pre.title
        /\ note.content = IF Differs(req.content, pre.content)
                          THEN Trim(Val(req.content)) ELSE pre.content
        /\ resp.applied = Some(TRUE)

\* a padded new title with the current content, sent to a note edited before
C17_Witness ==
    /\ EffectiveEdit
    /\ req.title = Some(<<" ", "b", " ">>)
    /\ req.content = Some(<<"d", " ">>)
    /\ pre.content = <<"d">>
    /\ pre.versions # <<>>
    /\ note.title = <<"b">>
    /\ Len(note.versions) = Len(pre.versions) + 1

\* C18: after k > MAX_HISTORY effective edits of a created note followed by j
\* undos, j is at most MAX_HISTORY, the undo stack holds pre-edit states
\* k - MAX_HISTORY + 1 .. k - j and the note is at v(k+1-j); once j is
\* MAX_HISTORY the note is at the state before edit k - MAX_HISTORY + 1, the
\* undo stack is empty and another undo is answered with the empty-history
\* error, so the created state v1 is not restored.
C18_LongRunUndos ==
    LET k == Len(run.past)
        j == run.undos
    IN  (run.phase \in {"edits", "undos"} /\ k > MAX_HISTORY) =>
            /\ j <= MAX_HISTORY
            /\ Stack(note.versions) = SubSeq(run.past, k - MAX_HISTORY + 1, k - j)
            /\ TC(note) = V(k + 1 - j)
            /\ j < MAX_HISTORY => patchUndo(note, now).resp.status = 200
            /\ j = MAX_HISTORY =>
                    /\ note.versions = <<>>
                    /\ TC(note) = run.past[k - MAX_HISTORY + 1]
                    /\ patchUndo(note, now) = Outcome(note, Response(400, UndoError))
            /\ (req.op = "undo" /\ resp.status # 200) =>
                    /\ j = MAX_HISTORY
                    /\ resp = Response(400, UndoError)
                    /\ note = pre

\* 21 edits, 20 undos, and the 21st undo was refused with the note at v2
C18_Witness ==
    /\ run.phase = "undos"
    /\ Len(run.past) = MAX_HISTORY + 1
    /\ run.undos = MAX_HISTORY
    /\ req.op = "undo"
    /\ resp = Response(400, UndoError)
    /\ TC(note) = run.past[2]
    /\ TC(note) # run.past[1]

\* the states a note can still be taken to: undo stack, current, redo stack
Timeline(n) == Stack(n.versions) \o <<TC(n)>> \o [i \in 1..Len(n.redoStack) |->
                    TC(n.redoStack[Len(n.redoStack) + 1 - i])]

\* C20: whatever edits, undos and redos were handled since the note was created,
\* the two stacks together hold at most MAX_HISTORY snapshots; so the stack an
\* undo or a redo pushes onto has room (limitStack evicts nothing there), and an
\* undo or redo only moves the note along the same sequence of states.
C20_SumBounded ==
    /\ Len(note.versions) + Len(note.redoStack) <= MAX_HISTORY
    /\ LastKind = "undo" =>
            /\ Len(pre.redoStack) < MAX_HISTORY
            /\ Len(note.redoStack) = Len(pre.redoStack) + 1
            /\ Timeline(note) = Timeline(pre)
    /\ LastKind = "redo" =>
            /\ Len(pre.versions) < MAX_HISTORY
            /\ Len(note.versions) = Len(pre.versions) + 1
            /\ Timeline(note) = Timeline(pre)

\* a redo refilled the undo stack to MAX_HISTORY after all of it was undone
C20_Witness ==
    /\ LastKind = "redo"
    /\ Len(note.versions) = MAX_HISTORY
    /\ note.redoStack = <<>>
    /\ Len(pre.versions) = MAX_HISTORY - 1

\* the note with one snapshot of itself as its whole history
FirstSnapshot(n, t) ==
    [n EXCEPT !.versions = <<createSnapshot(n, t)>>, !.redoStack = <<>>]

\* C19: in the edit logic of unnamed/part_001, applyUpdate with no field that
\* differs pushes one snapshot of the current state and empties the redo stack
\* when the undo stack is empty, leaving title and content as they were, so that
\* an undo then succeeds; when the undo stack is not empty it changes nothing.
C19_FirstEditSnapshot ==
    /\ loadNote(note) =>
            \A t \in TitleInputs, c \in ContentInputs :
                Unchanging(note, t, c) =>
                    applyUpdateV1(note, t, c, now) =
                        IF note.versions = <<>>
                        THEN FirstSnapshot(note, now) ELSE note
    /\ (req.op = "edit" /\ resp.status = 200
            /\ Unchanging(pre, req.title, req.content)) =>
                IF pre.versions = <<>>
                THEN /\ Stack(note.versions) = <<TC(pre)>>
                     /\ note.redoStack = <<>>
                     /\ TC(note) = TC(pre)
                     /\ patchUndo(note, now).resp.status = 200
                ELSE note = pre

\* right after creation the current title was sent again, and undo is available
C19_Witness ==
    /\ PrevKind = "create"
    /\ req.op = "edit"
    /\ resp.status = 200
    /\ Unchanging(pre, req.title, req.content)
    /\ pre.versions = <<>>
    /\ Len(note.versions) = 1
    /\ TC(note) = TC(pre)
    /\ patchUndo(note, now).resp.status = 200

\* C21: a successful undo or redo leaves the sequence undo stack (oldest first),
\* current title and content, redo stack (top first) as it was, compared by
\* title and content; only the position of the current state in it moves, one
\* place back for an undo and one place forward for a redo.
C21_LinearTimeline ==
    /\ (req.op = "undo" /\ resp.status = 200) =>
            /\ Timeline(note) = Timeline(pre)
            /\ Len(note.versions) = Len(pre.versions) - 1
    /\ (req.op = "redo" /\ resp.status = 200) =>
            /\ Timeline(note) = Timeline(pre)
            /\ Len(note.versions) = Len(pre.versions) + 1

\* a redo moved the note to the middle of a timeline of three distinct states
C21_Witness ==
    /\ req.op = "redo"
    /\ resp.status = 200
    /\ Len(Timeline(note)) = 3
    /\ note.versions # <<>>
    /\ note.redoStack # <<>>
    /\ Timeline(note)[1] # Timeline(note)[2]
    /\ Timeline(note)[2] # Timeline(note)[3]
    /\ Timeline(note)[1].content # Timeline(note)[3].content

\* the handler answered 200 after applyUpdate changed the note
Applied(h) ==
    /\ inflight[h].pc = "done"
    /\ inflight[h].resp.status = 200
    /\ inflight[h].resp.applied = Some(TRUE)

\* both requests found the note, carry the same lastKnownUpdate, a date, and
\* each proposes a title of its own; each applied edit is stamped later than
\* that date
SameGuardTwoEdits ==
    /\ \A h \in Handlers : inflight[h].doc.exists
    /\ inflight["A"].lastKnownUpdate = inflight["B"].lastKnownUpdate
    /\ inflight["A"].lastKnownUpdate.kind = "date"
    /\ inflight["A"].title # inflight["B"].title
    /\ \A h \in Handlers :
            Applied(h) => inflight[h].doc.updatedAt > inflight[h].lastKnownUpdate.t

\* C22: however the load, check and save steps of two edit requests for the
\* same note interleave, if both carry the same lastKnownUpdate and propose
\* different titles then they are not both applied: when both are done, at
\* most one was answered 200 and the other was answered 409.
C22_OneWriterWins ==
    (SameGuardTwoEdits /\ \A h \in Handlers : inflight[h].pc = "done") =>
        \/ Applied("A") /\ inflight["B"].resp.status = 409
        \/ Applied("B") /\ inflight["A"].resp.status = 409
        \/ \A h \in Handlers : ~Applied(h)

====
